---- MODULE Spec2Model ----
(***************************************************************************)
(* Model of InfrastructureStack.__init__                                   *)
(* (src/cdk_aws_infra/stacks/infrastructure_stack.py).                     *)
(*                                                                         *)
(* The constructor is one linear pass that reads context flags and adds    *)
(* resources, security-group rules, stack outputs and SSM parameters to    *)
(* the stack.  Each block of the constructor is one action; pc is the      *)
(* position of the constructor.  The context (the flags the operator       *)
(* supplies) and the deployment-unique identifier are chosen in Init.      *)
(* Context values are kept as strings: "None" is an absent key, "True"     *)
(* and "False" are the Python booleans.                                    *)
(***************************************************************************)
EXTENDS Integers, Sequences, FiniteSets, TLC

(* ------------------------------ bounds --------------------------------- *)
NumCidrs == 2
NumKeyNames == 2
NumUids == 2

CidrOf(i) == "10." \o ToString(i) \o ".0.0/16"
KeyNameOf(i) == IF i = 1 THEN "debug-key" ELSE "debug-key" \o ToString(i)
UidOf(i) == ToString(i) \o "c8f3a91e4b7d2"

None == "None"
PyBools == {"True", "False"}
ArchValues == {None, "", "ARM_64", "X86_64", "arm64"}
CidrValues == {None} \cup {CidrOf(i) : i \in 1..NumCidrs}
KeyNameValues == {None} \cup {KeyNameOf(i) : i \in 1..NumKeyNames}
UidValues == {UidOf(i) : i \in 1..NumUids}

(* every context the operator can supply: the keys the constructor reads   *)
(* and the keys it never reads                                             *)
Contexts ==
  [ arch : ArchValues,
    expose_swagger_public : {None} \cup PyBools,
    restrict_swagger_to_cidr : CidrValues,
    use_eip : {None} \cup PyBools,
    persistent_mode : {None} \cup PyBools,
    ssh_key_name : KeyNameValues,
    reuse_ssh_key : {None} \cup PyBools ]

VARIABLES
  context,                  \* self.node context, fixed for the run
  uid,                      \* deployment-unique identifier, fixed for the run
  pc,                       \* position of the constructor
  arch,                     \* local arch
  expose_swagger_public,    \* local expose_swagger_public
  restrict_swagger_to_cidr, \* local restrict_swagger_to_cidr
  use_eip,                  \* local use_eip
  resources,                \* constructs added to the stack: [id, type]
  removal_policy,           \* explicit removal policies: [id, policy]
  key_name,                 \* self.key_pair.key_name
  cpu_type,                 \* cpu_type of self.ami
  launch_templates,         \* [id, instance_type, cpu_type, key_name]
  internal_sg_ingress,      \* ingress rules of self.internal_sg: [peer, protocol, port]
  alb_sg_ingress,           \* ingress rules of self.alb_sg: [peer, protocol, port]
  tg_targets,               \* target registrations: [tg, target]
  listener,                 \* set holding the listener record once created
  listener_rules,           \* [id, priority, pattern, target]
  outputs,                  \* CfnOutput: [id, value]
  params,                   \* ssm.StringParameter: [name, value]
  request,                  \* path of the last request the listener handled
  response,                 \* what the listener did with it
  boot                      \* per service: the state of its user-data script

vars == << context, uid, pc, arch, expose_swagger_public,
           restrict_swagger_to_cidr, use_eip, resources, removal_policy, key_name,
           cpu_type,
           launch_templates, internal_sg_ingress, alb_sg_ingress, tg_targets,
           listener, listener_rules, outputs, params, request, response, boot >>

(* ------------------------------ helpers -------------------------------- *)
\* Python truthiness of a context value
Truthy(v) == v \notin {None, "False", ""}

\* x or default
PyOr(v, default) == IF Truthy(v) THEN v ELSE default

\* if x is None: x = default
DefaultIfNone(v, default) == IF v = None THEN default ELSE v

\* CloudFormation tokens
Ref(id) == "${" \o id \o "}"
Attr(id, a) == "${" \o id \o "." \o a \o "}"

Res(id, type) == [id |-> id, type |-> type]
Rule(peer, protocol, port) == [peer |-> peer, protocol |-> protocol, port |-> port]
Out(id, value) == [id |-> id, value |-> value]
Param(name, value) == [name |-> name, value |-> value]

AnyIpv4 == "0.0.0.0/0"

\* no request handled yet
NoResponse == [action |-> "none", target |-> None, status |-> 0]

\* lines 137, 211: the two user-data scripts
Services == {"fastapi", "gateway"}

\* a script that has not started: no shell variable set (CONFIG_DOWNLOADED /
\* GATEWAY_CONFIG_DOWNLOADED are assigned nowhere before lines 156 / 230),
\* no compose file on disk
BootOff ==
  [ pc |-> "off", i |-> 0, attempts |-> 0, failures |-> 0, slept |-> 0,
    downloaded_var |-> "unset", compose |-> "none", env_file |-> FALSE,
    started |-> FALSE, cron |-> FALSE ]

TypeOK ==
  /\ context \in Contexts
  /\ uid \in UidValues
  /\ pc \in {"context", "base", "keypair", "albsg", "iam", "lt", "asg", "alb",
             "listener", "ssmdoc", "eip", "outputs", "params", "done",
             "deleted"}

Init ==
  /\ context \in Contexts
  /\ uid \in UidValues
  /\ pc = "context"
  /\ arch = None
  /\ expose_swagger_public = None
  /\ restrict_swagger_to_cidr = None
  /\ use_eip = None
  /\ resources = {}
  /\ removal_policy = {}
  /\ key_name = None
  /\ cpu_type = None
  /\ launch_templates = {}
  /\ internal_sg_ingress = {}
  /\ alb_sg_ingress = {}
  /\ tg_targets = {}
  /\ listener = {}
  /\ listener_rules = {}
  /\ outputs = {}
  /\ params = {}
  /\ request = None
  /\ response = NoResponse
  /\ boot = [s \in Services |-> BootOff]

\* lines 20-28: read the context flags and apply the defaults
ReadContext ==
  /\ pc = "context"
  /\ arch' = PyOr(context.arch, "ARM_64")
  /\ expose_swagger_public' = DefaultIfNone(context.expose_swagger_public, "True")
  /\ restrict_swagger_to_cidr' = context.restrict_swagger_to_cidr
  /\ use_eip' = DefaultIfNone(context.use_eip, "False")
  /\ pc' = "base"
  /\ UNCHANGED << request, response, boot >>
  /\ UNCHANGED << context, uid, resources, removal_policy, key_name, cpu_type,
                  launch_templates, internal_sg_ingress, alb_sg_ingress,
                  tg_targets, listener, listener_rules, outputs, params >>

\* lines 58-63: rules of the internal security group
InternalRules ==
  { Rule(Ref("InternalSG"), "tcp", 8000),
    Rule(Ref("InternalSG"), "tcp", 3000),
    Rule(Ref("InternalSG"), "icmp", -1),
    Rule(AnyIpv4, "tcp", 22) }

\* the policy the frontend bucket has, were it given to the config bucket
BucketRemovalPolicyDestroy == "DESTROY"

\* line 32: removal_policy of AppConfigBucket
BucketRemovalPolicy == "RETAIN"

\* lines 30-63: config bucket (RETAIN), VPC, internal security group
CreateBase ==
  /\ pc = "base"
  /\ resources' = resources \cup { Res("AppConfigBucket", "AWS::S3::Bucket"),
                                   Res("AppVPC", "AWS::EC2::VPC"),
                                   Res("InternalSG", "AWS::EC2::SecurityGroup") }
  /\ removal_policy' = removal_policy \cup
                         { [id |-> "AppConfigBucket", policy |-> BucketRemovalPolicy] }
  /\ internal_sg_ingress' = internal_sg_ingress \cup InternalRules
  /\ pc' = "keypair"
  /\ UNCHANGED << request, response, boot >>
  /\ UNCHANGED << context, uid, arch, expose_swagger_public,
                  restrict_swagger_to_cidr, use_eip, key_name, cpu_type,
                  launch_templates, alb_sg_ingress, tg_targets, listener,
                  listener_rules, outputs, params >>

\* line 67: the key name is a fixed literal
KeyPairName == "cdk-aws-infra-debug-key"

\* lines 66-70: the key-pair resource is declared unconditionally
KeyPairResources == { Res("DebuggingKeyPair", "AWS::EC2::KeyPair") }

CreateKeyPair ==
  /\ pc = "keypair"
  /\ resources' = resources \cup KeyPairResources
  /\ key_name' = KeyPairName
  /\ pc' = "albsg"
  /\ UNCHANGED << request, response, boot >>
  /\ UNCHANGED << context, uid, arch, expose_swagger_public,
                  restrict_swagger_to_cidr, use_eip, removal_policy, cpu_type,
                  launch_templates, internal_sg_ingress, alb_sg_ingress,
                  tg_targets, listener, listener_rules, outputs, params >>

\* lines 79-93: explicit ingress rules of the ALB security group
EdgeIngressRules(expose, cidr) ==
  IF Truthy(expose)
  THEN IF Truthy(cidr)
       THEN { Rule(cidr, "tcp", 80), Rule(cidr, "tcp", 443) }
       ELSE { Rule(AnyIpv4, "tcp", 80), Rule(AnyIpv4, "tcp", 443) }
  ELSE {}

\* lines 72-97: ALB security group, its rules, and ALB -> instances rules
CreateAlbSg ==
  /\ pc = "albsg"
  /\ resources' = resources \cup { Res("SwaggerALBSG", "AWS::EC2::SecurityGroup") }
  /\ alb_sg_ingress' = alb_sg_ingress \cup
                         EdgeIngressRules(expose_swagger_public,
                                          restrict_swagger_to_cidr)
  /\ internal_sg_ingress' = internal_sg_ingress \cup
                              { Rule(Ref("SwaggerALBSG"), "tcp", 8000),
                                Rule(Ref("SwaggerALBSG"), "tcp", 3000) }
  /\ pc' = "iam"
  /\ UNCHANGED << request, response, boot >>
  /\ UNCHANGED << context, uid, arch, expose_swagger_public,
                  restrict_swagger_to_cidr, use_eip, removal_policy, key_name,
                  cpu_type, launch_templates, tg_targets, listener,
                  listener_rules, outputs, params >>

\* line 130 with a comparison that ignores the spelling of the flag
CpuTypeOfAnySpelling(a) == IF a \in {"ARM_64", "arm64"} THEN "ARM_64" ELSE "X86_64"

\* lines 282, 293: CPU architecture of an EC2 instance type; the families
\* whose name carries a g after the generation digit (t4g) are Graviton
InstanceTypeArch(t) == IF SubSeq(t, 3, 3) = "g" THEN "ARM_64" ELSE "X86_64"

\* line 130: CPU type of the machine image
CpuTypeOf(a) == IF a = "ARM_64" THEN "ARM_64" ELSE "X86_64"

\* lines 99-134: role, instance profile, machine image
CreateIamAndAmi ==
  /\ pc = "iam"
  /\ resources' = resources \cup { Res("EC2Role", "AWS::IAM::Role"),
                                   Res("EC2InstanceProfile", "AWS::IAM::InstanceProfile") }
  /\ cpu_type' = CpuTypeOf(arch)
  /\ pc' = "lt"
  /\ UNCHANGED << request, response, boot >>
  /\ UNCHANGED << context, uid, arch, expose_swagger_public,
                  restrict_swagger_to_cidr, use_eip, removal_policy, key_name,
                  launch_templates, internal_sg_ingress, alb_sg_ingress,
                  tg_targets, listener, listener_rules, outputs, params >>

\* lines 279-299: one launch template per service, both bound to
\* self.key_pair.key_name
CreateLaunchTemplates ==
  /\ pc = "lt"
  /\ resources' = resources \cup { Res("FastAPILT", "AWS::EC2::LaunchTemplate"),
                                   Res("GatewayLT", "AWS::EC2::LaunchTemplate") }
  /\ launch_templates' = launch_templates \cup
       { [id |-> "FastAPILT", instance_type |-> "t4g.micro",
          cpu_type |-> cpu_type, key_name |-> key_name],
         [id |-> "GatewayLT", instance_type |-> "t4g.medium",
          cpu_type |-> cpu_type, key_name |-> key_name] }
  /\ pc' = "asg"
  /\ UNCHANGED << request, response, boot >>
  /\ UNCHANGED << context, uid, arch, expose_swagger_public,
                  restrict_swagger_to_cidr, use_eip, removal_policy, key_name,
                  cpu_type, internal_sg_ingress, alb_sg_ingress, tg_targets,
                  listener, listener_rules, outputs, params >>

\* what a mutated lines 301-321 would declare: a standalone instance next
\* to the two scaling groups
AsgResourcesWithInstance ==
  { Res("FastAPIASG", "AWS::AutoScaling::AutoScalingGroup"),
    Res("GatewayASG", "AWS::AutoScaling::AutoScalingGroup"),
    Res("DevInstance", "AWS::EC2::Instance") }

\* lines 301-321: one scaling group per service, declared unconditionally
AsgResources ==
  { Res("FastAPIASG", "AWS::AutoScaling::AutoScalingGroup"),
    Res("GatewayASG", "AWS::AutoScaling::AutoScalingGroup") }

\* lines 301-325: the scaling groups, both RETAIN
CreateAsgs ==
  /\ pc = "asg"
  /\ resources' = resources \cup AsgResources
  /\ removal_policy' = removal_policy \cup
                         { [id |-> "FastAPIASG", policy |-> "RETAIN"],
                           [id |-> "GatewayASG", policy |-> "RETAIN"] }
  /\ pc' = "alb"
  /\ UNCHANGED << request, response, boot >>
  /\ UNCHANGED << context, uid, arch, expose_swagger_public,
                  restrict_swagger_to_cidr, use_eip, key_name, cpu_type,
                  launch_templates, internal_sg_ingress, alb_sg_ingress,
                  tg_targets, listener, listener_rules, outputs, params >>

\* lines 327-370: load balancer, target groups, scaling groups attached
CreateAlb ==
  /\ pc = "alb"
  /\ resources' = resources \cup
       { Res("SwaggerALB", "AWS::ElasticLoadBalancingV2::LoadBalancer"),
         Res("FastAPITG", "AWS::ElasticLoadBalancingV2::TargetGroup"),
         Res("GatewayTG", "AWS::ElasticLoadBalancingV2::TargetGroup") }
  /\ tg_targets' = tg_targets \cup
       { [tg |-> "FastAPITG", target |-> "FastAPIASG"],
         [tg |-> "GatewayTG", target |-> "GatewayASG"] }
  /\ pc' = "listener"
  /\ UNCHANGED << request, response, boot >>
  /\ UNCHANGED << context, uid, arch, expose_swagger_public,
                  restrict_swagger_to_cidr, use_eip, removal_policy, key_name,
                  cpu_type, launch_templates, internal_sg_ingress,
                  alb_sg_ingress, listener, listener_rules, outputs, params >>

\* what a listener created without open= would add: the library default
\* (open) rule, whatever expose_swagger_public is
ListenerOpenIngressAlways(open) == { Rule(AnyIpv4, "tcp", 80) }

\* line 375: open=expose_swagger_public; an open listener on port 80 adds
\* an ingress rule from any IPv4 address on its port to the security
\* group of the load balancer
ListenerOpenIngress(open) ==
  IF Truthy(open) THEN { Rule(AnyIpv4, "tcp", 80) } ELSE {}

\* what lines 383-393 would declare with the first pattern one segment too
\* short: it takes the gateway's paths as well
PathRulesOverlapping ==
  { [id |-> "FastAPIRule", priority |-> 10, pattern |-> "/swagger/*",
     target |-> "FastAPITG"],
    [id |-> "GatewayRule", priority |-> 20, pattern |-> "/swagger/gw/*",
     target |-> "GatewayTG"] }

\* lines 383-393: the two path rules
PathRules ==
  { [id |-> "FastAPIRule", priority |-> 10, pattern |-> "/swagger/api/*",
     target |-> "FastAPITG"],
    [id |-> "GatewayRule", priority |-> 20, pattern |-> "/swagger/gw/*",
     target |-> "GatewayTG"] }

\* lines 372-393: listener on port 80 with a fixed 404 default, path rules
CreateListener ==
  /\ pc = "listener"
  /\ resources' = resources \cup
       { Res("HttpListener", "AWS::ElasticLoadBalancingV2::Listener"),
         Res("FastAPIRule", "AWS::ElasticLoadBalancingV2::ListenerRule"),
         Res("GatewayRule", "AWS::ElasticLoadBalancingV2::ListenerRule") }
  /\ listener' = listener \cup
       { [id |-> "HttpListener", port |-> 80, open |-> expose_swagger_public,
          default_status |-> 404, default_body |-> "Not Found"] }
  /\ alb_sg_ingress' = alb_sg_ingress \cup ListenerOpenIngress(expose_swagger_public)
  /\ listener_rules' = listener_rules \cup PathRules
  /\ pc' = "ssmdoc"
  /\ UNCHANGED << request, response, boot >>
  /\ UNCHANGED << context, uid, arch, expose_swagger_public,
                  restrict_swagger_to_cidr, use_eip, removal_policy, key_name,
                  cpu_type, launch_templates, internal_sg_ingress, tg_targets,
                  outputs, params >>

\* lines 395-427: State Manager document
CreateStateManagerDoc ==
  /\ pc = "ssmdoc"
  /\ resources' = resources \cup { Res("AppStateManagerDoc", "AWS::SSM::Document") }
  /\ pc' = "eip"
  /\ UNCHANGED << request, response, boot >>
  /\ UNCHANGED << context, uid, arch, expose_swagger_public,
                  restrict_swagger_to_cidr, use_eip, removal_policy, key_name,
                  cpu_type, launch_templates, internal_sg_ingress,
                  alb_sg_ingress, tg_targets, listener, listener_rules,
                  outputs, params >>

\* lines 430-436: the two Elastic IPs, only if use_eip
EipResources(eip) ==
  IF Truthy(eip)
  THEN { Res("FastAPIEIP", "AWS::EC2::EIP"), Res("GatewayEIP", "AWS::EC2::EIP") }
  ELSE {}

\* lines 429-436
CreateEips ==
  /\ pc = "eip"
  /\ resources' = resources \cup EipResources(use_eip)
  /\ pc' = "outputs"
  /\ UNCHANGED << request, response, boot >>
  /\ UNCHANGED << context, uid, arch, expose_swagger_public,
                  restrict_swagger_to_cidr, use_eip, removal_policy, key_name,
                  cpu_type, launch_templates, internal_sg_ingress,
                  alb_sg_ingress, tg_targets, listener, listener_rules,
                  outputs, params >>

\* lines 439-513: outputs declared for every deployment
CoreOutputs(key) ==
  { Out("VpcId", Ref("AppVPC")),
    Out("InternalSGId", Attr("InternalSG", "GroupId")),
    Out("ALBSGId", Attr("SwaggerALBSG", "GroupId")),
    Out("SwaggerAlbDnsName", Attr("SwaggerALB", "DNSName")),
    Out("SwaggerAlbUrl", "http://" \o Attr("SwaggerALB", "DNSName")),
    Out("FastAPISwaggerUrl",
        "http://" \o Attr("SwaggerALB", "DNSName") \o "/swagger/api/docs"),
    Out("GatewaySwaggerUrl",
        "http://" \o Attr("SwaggerALB", "DNSName") \o "/swagger/gw/api-docs"),
    Out("FastAPITargetGroupArn", Ref("FastAPITG")),
    Out("GatewayTargetGroupArn", Ref("GatewayTG")),
    Out("ALBListenerArn", Ref("HttpListener")),
    Out("ConfigBucketName", Ref("AppConfigBucket")),
    Out("FastAPIASGName", Ref("FastAPIASG")),
    Out("GatewayASGName", Ref("GatewayASG")),
    Out("SSHKeyName", key),
    Out("SSHInstructions", "Para SSH: cdk-aws-infra-debug-key.pem") }

\* lines 515-523: the allocation-id outputs, only if use_eip
EipOutputs(eip) ==
  IF Truthy(eip)
  THEN { Out("FastAPIEIPAllocationId", Attr("FastAPIEIP", "AllocationId")),
         Out("GatewayEIPAllocationId", Attr("GatewayEIP", "AllocationId")) }
  ELSE {}

\* lines 438-523
CreateOutputs ==
  /\ pc = "outputs"
  /\ outputs' = outputs \cup CoreOutputs(key_name) \cup EipOutputs(use_eip)
  /\ pc' = "params"
  /\ UNCHANGED << request, response, boot >>
  /\ UNCHANGED << context, uid, arch, expose_swagger_public,
                  restrict_swagger_to_cidr, use_eip, resources, removal_policy,
                  key_name, cpu_type, launch_templates, internal_sg_ingress,
                  alb_sg_ingress, tg_targets, listener, listener_rules, params >>

\* lines 527-562: parameters published for every deployment
CoreParams(key) ==
  { Param("/infra/cdk/config/bucket", Ref("AppConfigBucket")),
    Param("/infra/cdk/alb/dns", Attr("SwaggerALB", "DNSName")),
    Param("/infra/cdk/fastapi/asg-name", Ref("FastAPIASG")),
    Param("/infra/cdk/gateway/asg-name", Ref("GatewayASG")),
    Param("/infra/cdk/fastapi/target-group-arn", Ref("FastAPITG")),
    Param("/infra/cdk/gateway/target-group-arn", Ref("GatewayTG")),
    Param("/infra/cdk/security/internal-sg-id", Attr("InternalSG", "GroupId")),
    Param("/infra/cdk/security/alb-sg-id", Attr("SwaggerALBSG", "GroupId")),
    Param("/infra/cdk/ssh/key-name", key) }

\* what a mutated lines 563-571 would publish: the allocation ids whether
\* or not the Elastic IPs were declared
EipParamsAlways(eip) ==
  { Param("/infra/cdk/eip/fastapi", Attr("FastAPIEIP", "AllocationId")),
    Param("/infra/cdk/eip/gateway", Attr("GatewayEIP", "AllocationId")) }

\* lines 563-571: the allocation-id parameters, only if use_eip
EipParams(eip) ==
  IF Truthy(eip)
  THEN { Param("/infra/cdk/eip/fastapi", Attr("FastAPIEIP", "AllocationId")),
         Param("/infra/cdk/eip/gateway", Attr("GatewayEIP", "AllocationId")) }
  ELSE {}

\* lines 525-571
CreateParams ==
  /\ pc = "params"
  /\ resources' = resources \cup
       { Res(p.name, "AWS::SSM::Parameter") :
           p \in CoreParams(key_name) \cup EipParams(use_eip) }
  /\ params' = params \cup CoreParams(key_name) \cup EipParams(use_eip)
  /\ pc' = "done"
  /\ UNCHANGED << request, response, boot >>
  /\ UNCHANGED << context, uid, arch, expose_swagger_public,
                  restrict_swagger_to_cidr, use_eip, removal_policy, key_name,
                  cpu_type, launch_templates, internal_sg_ingress,
                  alb_sg_ingress, tg_targets, listener, listener_rules, outputs >>

(* ------------------------------ routing -------------------------------- *)
\* bounds of the request paths
MaxSegments == 3

Segments == {"swagger", "api", "gw", "docs"}

RECURSIVE PathsOfDepth(_)
PathsOfDepth(n) ==
  IF n = 0 THEN {""}
  ELSE { p \o "/" \o seg : p \in PathsOfDepth(n - 1), seg \in Segments }

\* "/", and every path of 1..MaxSegments segments, with and without a
\* trailing slash
RequestPaths ==
  {"/"} \cup
  UNION { { p, p \o "/" } : p \in UNION { PathsOfDepth(n) : n \in 1..MaxSegments } }

StrTail(s) == SubSeq(s, 2, Len(s))

\* path-pattern condition of a listener rule: * matches zero or more
\* characters, ? exactly one, every other character itself
RECURSIVE PathMatches(_, _)
PathMatches(pattern, path) ==
  IF Len(pattern) = 0 THEN Len(path) = 0
  ELSE LET h == SubSeq(pattern, 1, 1)
       IN  IF h = "*"
           THEN \/ PathMatches(StrTail(pattern), path)
                \/ Len(path) > 0 /\ PathMatches(pattern, StrTail(path))
           ELSE /\ Len(path) > 0
                /\ h = "?" \/ h = SubSeq(path, 1, 1)
                /\ PathMatches(StrTail(pattern), StrTail(path))

\* lines 372-393: the listener takes the matching rule of lowest priority
\* number and forwards to its target group; with no matching rule it takes
\* the default action, the fixed 404
RouteRequest(rules, path) ==
  LET matching == { r \in rules : PathMatches(r.pattern, path) }
  IN  IF matching = {}
      THEN [action |-> "fixed_response", target |-> None, status |-> 404]
      ELSE LET first == CHOOSE r \in matching :
                          \A q \in matching : r.priority <= q.priority
           IN  [action |-> "forward", target |-> first.target, status |-> 0]

\* a request arrives at the listener of the deployed load balancer
Route ==
  /\ pc = "done"
  /\ \E path \in RequestPaths :
       /\ request' = path
       /\ response' = RouteRequest(listener_rules, path)
  /\ UNCHANGED << context, uid, pc, arch, expose_swagger_public,
                  restrict_swagger_to_cidr, use_eip, resources, removal_policy,
                  key_name, cpu_type, launch_templates, internal_sg_ingress,
                  alb_sg_ingress, tg_targets, listener, listener_rules,
                  outputs, params, boot >>

(* ------------------------------ teardown ------------------------------- *)
\* lines 32, 324-325: on stack deletion a resource is kept exactly when its
\* removal policy is RETAIN; a resource with no explicit policy is deleted
Survivors(res, policies) ==
  { r \in res : \E q \in policies : q.id = r.id /\ q.policy = "RETAIN" }

\* the deployed stack is deleted: its parameters and outputs go with it
Teardown ==
  /\ pc = "done"
  /\ resources' = Survivors(resources, removal_policy)
  /\ params' = {}
  /\ outputs' = {}
  /\ pc' = "deleted"
  /\ UNCHANGED << context, uid, arch, expose_swagger_public,
                  restrict_swagger_to_cidr, use_eip, removal_policy, key_name,
                  cpu_type, launch_templates, internal_sg_ingress,
                  alb_sg_ingress, tg_targets, listener, listener_rules,
                  request, response, boot >>

(* ---------------------------- boot scripts ------------------------------ *)
\* lines 153, 227: for i in {1..5}
MaxAttempts == 5

\* lines 160, 234: sleep 10
RetrySleep == 10

\* lines 139, 215: set -eux
ShellOptions == {"e", "u", "x"}

\* what lines 154-157 would do without the break: the flag is set and the
\* loop goes on to the next attempt
DownloadSucceededNoBreak(b) ==
  [ b EXCEPT !.attempts = @ + 1,
             !.compose = "downloaded",
             !.downloaded_var = "true",
             !.i = IF b.i < MaxAttempts THEN @ + 1 ELSE @,
             !.pc = IF b.i < MaxAttempts THEN "download" ELSE "env" ]

\* lines 154-157 (228-231): aws s3 cp succeeded: the compose file is
\* there, the flag variable is set, break
DownloadSucceeded(b) ==
  [ b EXCEPT !.attempts = @ + 1,
             !.compose = "downloaded",
             !.downloaded_var = "true",
             !.pc = "env" ]

\* lines 158-162 (232-236): aws s3 cp failed: echo, sleep 10, next i; the
\* loop ends after the last i
DownloadFailed(b) ==
  [ b EXCEPT !.attempts = @ + 1,
             !.failures = @ + 1,
             !.slept = @ + RetrySleep,
             !.i = IF b.i < MaxAttempts THEN @ + 1 ELSE @,
             !.pc = IF b.i < MaxAttempts THEN "download" ELSE "env" ]

\* lines 165-180 (239-254): if [ "$CONFIG_DOWNLOADED" != "true" ]: under
\* set -u the expansion of the unset variable ends the script; otherwise
\* the default compose file is written when the flag is not "true"
CheckDownloaded(b) ==
  IF b.downloaded_var = "unset" /\ "u" \in ShellOptions
  THEN [ b EXCEPT !.pc = "aborted" ]
  ELSE IF b.downloaded_var # "true"
       THEN [ b EXCEPT !.compose = "default", !.pc = "up" ]
       ELSE [ b EXCEPT !.pc = "up" ]

BootUnchanged ==
  UNCHANGED << context, uid, pc, arch, expose_swagger_public,
               restrict_swagger_to_cidr, use_eip, resources, removal_policy,
               key_name, cpu_type, launch_templates, internal_sg_ingress,
               alb_sg_ingress, tg_targets, listener, listener_rules,
               outputs, params, request, response >>

\* the instance of the service's scaling group boots and runs its user data
Launch(s) ==
  /\ pc = "done"
  /\ boot[s].pc = "off"
  /\ boot' = [boot EXCEPT ![s].pc = "setup"]
  /\ BootUnchanged

\* lines 139-152 (213-226): shell options, docker and docker-compose
\* installed, directories made
Setup(s) ==
  /\ boot[s].pc = "setup"
  /\ boot' = [boot EXCEPT ![s].pc = "download", ![s].i = 1]
  /\ BootUnchanged

\* lines 153-162 (227-236): one pass of the retry loop
DownloadAttempt(s) ==
  /\ boot[s].pc = "download"
  /\ \E ok \in BOOLEAN :
       boot' = [boot EXCEPT ![s] = IF ok THEN DownloadSucceeded(boot[s])
                                        ELSE DownloadFailed(boot[s])]
  /\ BootUnchanged

\* line 163 (237): aws s3 cp .env || echo: either way the script goes on
CopyEnv(s) ==
  /\ boot[s].pc = "env"
  /\ \E ok \in BOOLEAN :
       boot' = [boot EXCEPT ![s].env_file = ok, ![s].pc = "check"]
  /\ BootUnchanged

\* lines 164-180 (238-254)
WriteDefault(s) ==
  /\ boot[s].pc = "check"
  /\ boot' = [boot EXCEPT ![s] = CheckDownloaded(boot[s])]
  /\ BootUnchanged

\* lines 181-183 (255-257): docker-compose up -d
ComposeUp(s) ==
  /\ boot[s].pc = "up"
  /\ boot' = [boot EXCEPT ![s].started = TRUE, ![s].pc = "verify"]
  /\ BootUnchanged

\* lines 184-204 (258-273): wait, status, logs, local service test
Verify(s) ==
  /\ boot[s].pc = "verify"
  /\ boot' = [boot EXCEPT ![s].pc = "cron"]
  /\ BootUnchanged

\* lines 205-207 (274-276): the self-heal crontab entry
InstallCron(s) ==
  /\ boot[s].pc = "cron"
  /\ boot' = [boot EXCEPT ![s].cron = TRUE, ![s].pc = "finished"]
  /\ BootUnchanged

BootStep(s) ==
  \/ Launch(s)
  \/ Setup(s)
  \/ DownloadAttempt(s)
  \/ CopyEnv(s)
  \/ WriteDefault(s)
  \/ ComposeUp(s)
  \/ Verify(s)
  \/ InstallCron(s)

Next ==
  \/ ReadContext
  \/ CreateBase
  \/ CreateKeyPair
  \/ CreateAlbSg
  \/ CreateIamAndAmi
  \/ CreateLaunchTemplates
  \/ CreateAsgs
  \/ CreateAlb
  \/ CreateListener
  \/ CreateStateManagerDoc
  \/ CreateEips
  \/ CreateOutputs
  \/ CreateParams

Spec == Init /\ [][Next]_vars

\* requests reach the deployed listener; the rules do not depend on the
\* flags, so only expose_swagger_public varies
InitRouting ==
  /\ Init
  /\ \A k \in DOMAIN context \ {"expose_swagger_public"} : context[k] = None

NextRouting == Next \/ Route

SpecRouting == InitRouting /\ [][NextRouting]_vars

\* a deployment with the flags at their defaults, then the two instances
\* run their user-data scripts; every command but the retrievals from the
\* bucket is taken to succeed
InitBoot ==
  /\ Init
  /\ \A k \in DOMAIN context : context[k] = None

NextBoot == Next \/ \E s \in Services : BootStep(s)

SpecBoot == InitBoot /\ [][NextBoot]_vars

\* a deployment followed by the deletion of the stack
NextTeardown == Next \/ Teardown

SpecTeardown == Init /\ [][NextTeardown]_vars

(* ------------------------ views of the final graph --------------------- *)
OfType(t) == { r \in resources : r.type = t }
AutoScalingGroups == OfType("AWS::AutoScaling::AutoScalingGroup")
Instances == OfType("AWS::EC2::Instance")
KeyPairs == OfType("AWS::EC2::KeyPair")
LoadBalancers == OfType("AWS::ElasticLoadBalancingV2::LoadBalancer")
Listeners == OfType("AWS::ElasticLoadBalancingV2::Listener")
TargetGroups == OfType("AWS::ElasticLoadBalancingV2::TargetGroup")
ElasticIps == OfType("AWS::EC2::EIP")

\* the topologies whose compute resources are in the graph: scaling groups
\* (Autoscaled), two or more standalone instances (FixedPair), a single
\* standalone instance (SingleDev)
TopologiesPresent ==
  (IF AutoScalingGroups # {} THEN {"Autoscaled"} ELSE {}) \cup
  (IF Cardinality(Instances) >= 2 THEN {"FixedPair"} ELSE {}) \cup
  (IF Cardinality(Instances) = 1 THEN {"SingleDev"} ELSE {})

\* the flags as the operator means them, defaults applied
ExposeFlag == DefaultIfNone(context.expose_swagger_public, "True")
UseEipFlag == Truthy(context.use_eip)
PersistentFlag == Truthy(context.persistent_mode)
ReuseKeyFlag == Truthy(context.reuse_ssh_key)
SshKeyNameFlag == PyOr(context.ssh_key_name, "cdk-aws-infra-debug-key")

Done == pc = "done"

(* -------------------------------- C1 ----------------------------------- *)
\* C1: for every combination of the flags, the finished graph holds the
\* compute resources of exactly one topology among Autoscaled, FixedPair
\* and SingleDev: never none, never two.
C1_ExactlyOneTopology == Done => Cardinality(TopologiesPresent) = 1

C1_Witness ==
  /\ Done
  /\ TopologiesPresent = {"Autoscaled"}
  /\ context.persistent_mode = "True"
  /\ context.arch = "X86_64"
  /\ context.reuse_ssh_key = "True"

(* -------------------------------- C2 ----------------------------------- *)
\* C2: whenever persistentMode is true, the finished graph is the SingleDev
\* topology and holds no load balancer, no listener and no target group.
C2_PersistentIsSingleDev ==
  (Done /\ PersistentFlag) =>
    /\ TopologiesPresent = {"SingleDev"}
    /\ LoadBalancers = {}
    /\ Listeners = {}
    /\ TargetGroups = {}

(* -------------------------------- C3 ----------------------------------- *)
\* sshKeyName, "-", and the first 8 characters of the unique identifier
GeneratedKeyName(base, id) == base \o "-" \o SubSeq(id, 1, 8)

\* C3: whenever reuseSshKey is false, the finished graph holds exactly one
\* new key-pair resource and its name is sshKeyName + "-" + the first 8
\* characters of the deployment-unique identifier.
C3_GeneratedKeyPair ==
  (Done /\ ~ReuseKeyFlag) =>
    /\ Cardinality(KeyPairs) = 1
    /\ key_name = GeneratedKeyName(SshKeyNameFlag, uid)

(* -------------------------------- C4 ----------------------------------- *)
PublishedKeyNames == { p.value : p \in { q \in params : q.name = "/infra/cdk/ssh/key-name" } }

\* C4: whenever reuseSshKey is true, the finished graph holds no key-pair
\* resource, and the key name bound to every launch template and the
\* published key name are the input sshKeyName; a key pair is created
\* exactly when it is not reused.
C4_ReusedKeyPair ==
  Done =>
    /\ ReuseKeyFlag =>
         /\ KeyPairs = {}
         /\ \A lt \in launch_templates : lt.key_name = SshKeyNameFlag
         /\ PublishedKeyNames = {SshKeyNameFlag}
    /\ (KeyPairs # {}) <=> ~ReuseKeyFlag

(* -------------------------------- C5 ----------------------------------- *)
\* C5: whenever exposePublicly is false, whatever restrictToCidr is, the
\* security group of the load balancer has no ingress rule at all, the
\* explicit rules and the rule of the listener's open setting included.
C5_ClosedEdgeHasNoIngress == ExposeFlag = "False" => alb_sg_ingress = {}

C5_Witness ==
  /\ Done
  /\ ExposeFlag = "False"
  /\ context.restrict_swagger_to_cidr # None
  /\ Listeners # {}
  /\ alb_sg_ingress = {}

(* -------------------------------- C6 ----------------------------------- *)
WebIngressPeers == { r.peer : r \in { q \in alb_sg_ingress : q.port \in {80, 443} } }

\* C6: whenever exposePublicly is true, ingress on ports 80 and 443 of the
\* load balancer's security group comes from exactly one source, the CIDR
\* when restrictToCidr is set and any address otherwise; with restrictToCidr
\* set no ingress rule admits all addresses.
C6_EdgeHasOneSource ==
  (Done /\ ExposeFlag = "True") =>
    /\ WebIngressPeers =
         { IF Truthy(context.restrict_swagger_to_cidr)
           THEN context.restrict_swagger_to_cidr ELSE AnyIpv4 }
    /\ Truthy(context.restrict_swagger_to_cidr) =>
         \A r \in alb_sg_ingress : r.peer # AnyIpv4

(* -------------------------------- C7 ----------------------------------- *)
PublishedValues == { p.value : p \in { q \in params : SubSeq(q.name, 1, 7) = "/infra/" } }

\* C7: for every flag combination the published /infra/... parameters hold
\* the four core values: bucket name, internal security-group id, SSH key
\* name, and the persistence-mode flag as the string "true" or "false".
C7_CoreParameters ==
  Done =>
    /\ Ref("AppConfigBucket") \in PublishedValues
    /\ Attr("InternalSG", "GroupId") \in PublishedValues
    /\ key_name \in PublishedValues
    /\ (IF PersistentFlag THEN "true" ELSE "false") \in PublishedValues

(* -------------------------------- C8 ----------------------------------- *)
LoadBalanced == TopologiesPresent \cap {"Autoscaled", "FixedPair"} # {}
EipParamsPublished == { p \in params : SubSeq(p.name, 1, 15) = "/infra/cdk/eip/" }
EipOutputsPublished ==
  { o \in outputs : o.id \in {"FastAPIEIPAllocationId", "GatewayEIPAllocationId"} }
AllocationIds == { Attr(r.id, "AllocationId") : r \in ElasticIps }

\* C8: in a load-balanced topology the published parameters hold the load
\* balancer's DNS name, one target identifier per target group (two in all)
\* and the edge security-group id; the two allocation-id parameters and
\* the two allocation-id outputs are there exactly when useReservedIp is
\* set, and each refers to an Elastic IP that is in the graph.
C8_LoadBalancedParameters ==
  (Done /\ LoadBalanced) =>
    /\ \A lb \in LoadBalancers : Attr(lb.id, "DNSName") \in PublishedValues
    /\ LoadBalancers # {}
    /\ Cardinality(TargetGroups) = 2
    /\ \A tg \in TargetGroups : Ref(tg.id) \in PublishedValues
    /\ Attr("SwaggerALBSG", "GroupId") \in PublishedValues
    /\ Cardinality(EipParamsPublished) = (IF UseEipFlag THEN 2 ELSE 0)
    /\ Cardinality(EipOutputsPublished) = (IF UseEipFlag THEN 2 ELSE 0)
    /\ \A p \in EipParamsPublished : p.value \in AllocationIds
    /\ \A o \in EipOutputsPublished : o.value \in AllocationIds

C8_Witness ==
  /\ Done
  /\ LoadBalanced
  /\ UseEipFlag
  /\ Cardinality(EipParamsPublished) = 2
  /\ Cardinality(ElasticIps) = 2

(* -------------------------------- C10 ---------------------------------- *)
ExampleFlags ==
  /\ context.persistent_mode = "False"
  /\ context.expose_swagger_public = "True"
  /\ context.restrict_swagger_to_cidr = None
  /\ context.reuse_ssh_key = "False"
  /\ context.ssh_key_name = "debug-key"

\* C10: for the flags persistentMode false, exposePublicly true, no
\* restrictToCidr, reuseSshKey false, sshKeyName "debug-key", the graph is
\* FixedPair: two standalone instances registered directly as targets, one
\* load balancer with exactly two path rules to two targets and a default
\* 404, the edge security group open on 80 and 443, and a key name
\* debug-key-<8 characters>.
C10_ExampleIsFixedPair ==
  (Done /\ ExampleFlags) =>
    /\ TopologiesPresent = {"FixedPair"}
    /\ Cardinality(Instances) = 2
    /\ { t.target : t \in tg_targets } = { i.id : i \in Instances }
    /\ Cardinality(LoadBalancers) = 1
    /\ Cardinality(listener_rules) = 2
    /\ Cardinality({ r.target : r \in listener_rules }) = 2
    /\ \A l \in listener : l.default_status = 404
    /\ { Rule(AnyIpv4, "tcp", 80), Rule(AnyIpv4, "tcp", 443) } \subseteq alb_sg_ingress
    /\ Len(key_name) = Len("debug-key-") + 8
    /\ SubSeq(key_name, 1, Len("debug-key-")) = "debug-key-"

(* -------------------------------- C11 ---------------------------------- *)
HasPrefix(str, prefix) ==
  Len(str) >= Len(prefix) /\ SubSeq(str, 1, Len(prefix)) = prefix

Forward(tg) == [action |-> "forward", target |-> tg, status |-> 0]

\* C11: the listener gives every request path exactly one outcome: a path
\* under /swagger/api/ goes to the FastAPI target group, a path under
\* /swagger/gw/ to the Gateway target group, no path is under both, and
\* every other path gets the fixed 404.
C11_PathRouting ==
  request # None =>
    LET toApi == HasPrefix(request, "/swagger/api/")
        toGw == HasPrefix(request, "/swagger/gw/")
    IN  /\ toApi => response = Forward("FastAPITG")
        /\ toGw => response = Forward("GatewayTG")
        /\ ~(toApi /\ toGw)
        /\ (~toApi /\ ~toGw) =>
             response = [action |-> "fixed_response", target |-> None, status |-> 404]
        /\ \A l \in listener : l.default_status = 404

C11_Witness ==
  /\ request = "/swagger/gw/docs"
  /\ response = Forward("GatewayTG")
  /\ Cardinality(listener_rules) = 2

(* -------------------------------- C14 ---------------------------------- *)
Deleted == pc = "deleted"

ComputeScalingRoutingTypes ==
  { "AWS::EC2::Instance", "AWS::EC2::LaunchTemplate",
    "AWS::AutoScaling::AutoScalingGroup",
    "AWS::ElasticLoadBalancingV2::LoadBalancer",
    "AWS::ElasticLoadBalancingV2::Listener",
    "AWS::ElasticLoadBalancingV2::ListenerRule",
    "AWS::ElasticLoadBalancingV2::TargetGroup" }

\* C14 as stated: after teardown the only resources left are the config
\* bucket and a credential; no compute, scaling or routing resource is left.
C14_OnlyBucketAndCredentialSurvive ==
  Deleted =>
    /\ \A r \in resources : r.type \in {"AWS::S3::Bucket", "AWS::EC2::KeyPair"}
    /\ \A r \in resources : r.type \notin ComputeScalingRoutingTypes

\* C14 amended: after teardown every resource is gone except those marked
\* retain-on-delete, and what is left is exactly the config bucket and the
\* two auto scaling groups; no instance, launch template, load balancer,
\* listener, rule, target group or key pair is left.
C14_BucketAndScalingGroupsSurvive ==
  Deleted =>
    /\ \A r \in resources :
         \E q \in removal_policy : q.id = r.id /\ q.policy = "RETAIN"
    /\ { r.id : r \in resources } = {"AppConfigBucket", "FastAPIASG", "GatewayASG"}
    /\ \A r \in resources :
         r.type \notin ComputeScalingRoutingTypes \ {"AWS::AutoScaling::AutoScalingGroup"}
    /\ KeyPairs = {}

C14_Witness ==
  /\ Deleted
  /\ Cardinality(AutoScalingGroups) = 2
  /\ Res("AppConfigBucket", "AWS::S3::Bucket") \in resources
  /\ LoadBalancers = {}

(* -------------------------------- C15 ---------------------------------- *)
ImageCpuTypes == { lt.cpu_type : lt \in launch_templates }

\* C15 as stated: the image of every compute unit is the arm64 variant
\* exactly when the architecture flag is ARM_64 or absent, the x86_64
\* variant for every other supplied value, and both units use one image.
C15_ArmIffArmOrAbsent ==
  Done =>
    ImageCpuTypes = { IF context.arch \in {"ARM_64", None} THEN "ARM_64" ELSE "X86_64" }

\* C15 amended: the image of every compute unit is the arm64 variant
\* exactly when the architecture flag is ARM_64, absent or empty, the
\* x86_64 variant for every other supplied value, and both units use one
\* image.
C15_ArmIffArmAbsentOrEmpty ==
  Done =>
    ImageCpuTypes =
      { IF context.arch \in {"ARM_64", None, ""} THEN "ARM_64" ELSE "X86_64" }

C15_Witness ==
  /\ Done
  /\ context.arch = ""
  /\ Cardinality(launch_templates) = 2
  /\ ImageCpuTypes = {"ARM_64"}

(* -------------------------------- C16 ---------------------------------- *)
\* C16: for every value of the architecture flag, in each launch template
\* the CPU architecture of the instance type is the CPU architecture of the
\* machine image.
C16_InstanceTypeMatchesImage ==
  Done => \A lt \in launch_templates : InstanceTypeArch(lt.instance_type) = lt.cpu_type

(* -------------------------------- C12 ---------------------------------- *)
Successes(b) == b.attempts - b.failures

\* C12: in each boot script the compose file is fetched at most 5 times,
\* not again after the first success, each failed attempt is followed by
\* the same 10 second wait, and the default compose file is written only
\* when no attempt succeeded: a downloaded file is never replaced.
C12_RetryPolicy ==
  /\ [](\A s \in Services :
          /\ boot[s].attempts <= 5
          /\ Successes(boot[s]) <= 1
          /\ boot[s].slept = 10 * boot[s].failures
          /\ boot[s].compose = "default" => Successes(boot[s]) = 0)
  /\ [][\A s \in Services :
          /\ Successes(boot[s]) >= 1 => boot'[s].attempts = boot[s].attempts
          /\ boot[s].compose = "downloaded" => boot'[s].compose = "downloaded"]_vars

C12_Witness ==
  /\ boot["fastapi"].attempts = 5
  /\ boot["fastapi"].failures = 4
  /\ boot["fastapi"].compose = "downloaded"
  /\ boot["fastapi"].started
  /\ boot["gateway"].failures = 5
  /\ boot["gateway"].slept = 50

(* -------------------------------- C13 ---------------------------------- *)
Ended(b) == b.pc \in {"finished", "aborted"}

\* C13: whatever the retrieval attempts give, all 5 failing included, a
\* boot script that has ended wrote the default bundle if retrieval
\* failed, started the bundle and installed the self-heal cron entry; it
\* never ends before the bundle is started.
C13_BundleAlwaysStarted ==
  \A s \in Services :
    Ended(boot[s]) =>
      /\ boot[s].started
      /\ boot[s].cron
      /\ Successes(boot[s]) = 0 => boot[s].compose = "default"

====
